---- MODULE Spec2Model ----
(***************************************************************************)
(* Model of SheetElement (library/sheet.jsx): the <ui-sheet> custom        *)
(* element.  The state is the host element's attributes, the private drag  *)
(* fields, the inline styles and class list the drag handlers write, the   *)
(* global cursor style and the listeners registered on window.  Every      *)
(* action is one call from the page or one browser event, run to           *)
(* completion through all the listeners it reaches.                        *)
(***************************************************************************)
EXTENDS Integers, Naturals, Sequences, FiniteSets, TLC

VARIABLES
    attributes,       \* names of the attributes present on the host element
    dragPosition,     \* #dragPosition: Undefined or the pageY of the drag start
    scaleDownTo,      \* #scaleDownTo: Undefined or a number
    classList,        \* class names added to #sheet at run time
    transform,        \* #sheet.style.transform: <<>> (empty) or <<translateY, scale>>
    transition,       \* #sheet.style.transition: "" or "none"
    areaCursor,       \* #draggableArea.style.cursor
    bodyCursor,       \* document.body.style.cursor
    windowListeners,  \* <<type, listener>> pairs registered on window
    isConnected,      \* whether the element is in the document
    dispatched,       \* notifications dispatched on the host by the last step
    lastOp,           \* the last call or event, with the open marker before it
    sibling,          \* a second <ui-sheet> of the same page: its own state
    pointerDown       \* whether the pointer of the page is pressed

vars == <<attributes, dragPosition, scaleDownTo, classList, transform, transition,
          areaCursor, bodyCursor, windowListeners, isConnected, dispatched, lastOp,
          sibling, pointerDown>>

----------------------------------------------------------------------------
(* Bounds of the explored inputs. *)

\* pointer positions (pageY) are 200, 300, .. 100 * MaxPage
MaxPage == 5
\* sheet heights (clientHeight) are 0, 400, .. 400 * MaxHeight
MaxHeight == 1

PageYs == {100 * i : i \in 2..MaxPage}
ClientHeights == {400 * i : i \in 0..MaxHeight}

----------------------------------------------------------------------------
(* JavaScript numbers.  A finite number is an exact fraction n/d in lowest   *)
(* terms; NaN and the two infinities are separate values with the IEEE 754   *)
(* rules the handlers can meet (x/0, NaN propagation, comparisons with NaN). *)
(* The operands are pixel counts far below 2^53, where a quotient that is    *)
(* exactly representable (such as -1/4) is computed exactly by a double.     *)

RECURSIVE GCD(_, _)
GCD(a, b) ==
    IF b = 0 THEN a ELSE GCD(b, a % b)

Abs(i) ==
    IF i < 0 THEN -i ELSE i

NaN == [k |-> "nan", n |-> 0, d |-> 1]
\* the value undefined, shaped like a number so that the two compare
Undefined == [k |-> "undefined", n |-> 0, d |-> 1]
PosInf == [k |-> "inf", n |-> 1, d |-> 1]
NegInf == [k |-> "inf", n |-> -1, d |-> 1]

Frac(n, d) ==
    LET g == GCD(Abs(n), Abs(d))
        s == IF d < 0 THEN -1 ELSE 1
    IN  [k |-> "fin", n |-> (s * n) \div g, d |-> (s * d) \div g]

Num(i) ==
    Frac(i, 1)

Sign(x) ==
    IF x.n > 0 THEN 1 ELSE IF x.n < 0 THEN -1 ELSE 0

Inf(s) ==
    IF s > 0 THEN PosInf ELSE NegInf

NumAdd(x, y) ==
    CASE x.k = "nan" \/ y.k = "nan" -> NaN
      [] x.k = "inf" /\ y.k = "inf" -> IF x.n = y.n THEN x ELSE NaN
      [] x.k = "inf" -> x
      [] y.k = "inf" -> y
      [] OTHER -> Frac(x.n * y.d + y.n * x.d, x.d * y.d)

NumNeg(x) ==
    IF x.k = "nan" THEN NaN ELSE [x EXCEPT !.n = -x.n]

NumSub(x, y) ==
    NumAdd(x, NumNeg(y))

NumMul(x, y) ==
    CASE x.k = "nan" \/ y.k = "nan" -> NaN
      [] x.k = "inf" \/ y.k = "inf" ->
            IF Sign(x) * Sign(y) = 0 THEN NaN ELSE Inf(Sign(x) * Sign(y))
      [] OTHER -> Frac(x.n * y.n, x.d * y.d)

\* the divisors met here are non-negative layout sizes, so a zero divisor is +0
NumDiv(x, y) ==
    CASE x.k = "nan" \/ y.k = "nan" -> NaN
      [] x.k = "inf" /\ y.k = "inf" -> NaN
      [] x.k = "inf" -> IF Sign(y) < 0 THEN NumNeg(x) ELSE x
      [] y.k = "inf" -> Num(0)
      [] y.n = 0 -> IF x.n = 0 THEN NaN ELSE Inf(Sign(x))
      [] OTHER -> Frac(x.n * y.d, x.d * y.n)

\* x < y; every comparison with NaN is false
NumLess(x, y) ==
    CASE x.k = "nan" \/ y.k = "nan" -> FALSE
      [] x.k = "inf" /\ y.k = "inf" -> x.n < y.n
      [] x.k = "inf" -> x.n < 0
      [] y.k = "inf" -> y.n > 0
      [] OTHER -> x.n * y.d < y.n * x.d

\* Math.min and Math.max: NaN if either argument is NaN
MathMin(x, y) ==
    IF x.k = "nan" \/ y.k = "nan" THEN NaN
    ELSE IF NumLess(y, x) THEN y ELSE x

MathMax(x, y) ==
    IF x.k = "nan" \/ y.k = "nan" THEN NaN
    ELSE IF NumLess(x, y) THEN y ELSE x

----------------------------------------------------------------------------
(* JavaScript values assigned to the open property and to the option flags. *)

JSValues == {"true", "false", "undefined", "null", "0", "'no'"}

\* Boolean(value)
Boolean(value) ==
    value \notin {"false", "undefined", "null", "0", "''"}

----------------------------------------------------------------------------
(* The document around the element.                                         *)

\* the attributes the element reads
AttributeNames == {"open", "ignore-background-click", "ignore-escape-key"}

\* The composed tree: the host, its shadow tree (constructor) and one element
\* of the page slotted into it.  Parent[n] is the next node on an event's
\* composed path; "window" ends it.
Parent ==
    [sheetDraggableThumb |-> "sheetDraggableArea",
     sheetDraggableArea  |-> "sheetControls",
     sheetCloseButton    |-> "sheetControls",
     sheetControls       |-> "sheet",
     slottedInput        |-> "slot",
     slot                |-> "sheetBody",
     sheetBody           |-> "sheet",
     sheet               |-> "shadowRoot",
     shadowRoot          |-> "host",
     host                |-> "body",
     outsideInput        |-> "body",
     body                |-> "html",
     html                |-> "document",
     document            |-> "window"]

RECURSIVE composedPath(_)
composedPath(target) ==
    IF target = "window" THEN <<"window">>
    ELSE <<target>> \o composedPath(Parent[target])

\* where a click can land: the host outside the inner container (the
\* background), and nodes inside the inner container
ClickTargets == {"host", "sheet", "sheetCloseButton", "sheetDraggableArea",
                 "sheetDraggableThumb", "slottedInput"}

\* the elements that can hold the focus; body holds it when nothing else does
FocusTargets == {"body", "outsideInput", "slottedInput"}

Keys == {"Escape", "Enter"}

\* values of the --scale-down-to custom property
ScaleDownToValues == {"0.9", "0.5"}

----------------------------------------------------------------------------
(* helpers.js *)

\* touchPosition(event): the touch point of a touch event, the event itself
\* for a mouse event
touchPosition(event) ==
    IF "touch" \in DOMAIN event THEN event.touch ELSE event

\* getCSSVariableValue(element, name) on #sheet
getCSSVariableValue(dom, name) ==
    IF name = "--scale-down-to" THEN dom.scaleDownToValue ELSE ""

\* unary plus on a string
ToNumber(str) ==
    CASE str = "0.9" -> Frac(9, 10)
      [] str = "0.5" -> Frac(1, 2)
      [] str = "1" -> Num(1)
      [] str = "" -> Num(0)
      [] OTHER -> NaN

\* mapNumber(value, [fromLow, fromHigh], [toLow, toHigh])
mapNumber(value, from, to) ==
    NumAdd(to[1],
           NumDiv(NumMul(NumSub(value, from[1]), NumSub(to[2], to[1])),
                  NumSub(from[2], from[1])))

\* isFocused(element)
isFocused(element, dom) ==
    dom.activeElement = element

\* elementContains(element, ancestor): element is a descendant of ancestor
elementContains(element, ancestor) ==
    LET path == composedPath(element)
    IN  \E i \in 2..Len(path) : path[i] = ancestor

----------------------------------------------------------------------------
(* The element.  An operation takes the instance as a record s of the state  *)
(* variables and returns the instance after it.                              *)

Self ==
    [attributes |-> attributes, dragPosition |-> dragPosition,
     scaleDownTo |-> scaleDownTo, classList |-> classList,
     transform |-> transform, transition |-> transition,
     areaCursor |-> areaCursor, bodyCursor |-> bodyCursor,
     dispatched |-> <<>>]

hasAttribute(s, name) ==
    name \in s.attributes

setAttribute(s, name) ==
    [s EXCEPT !.attributes = @ \cup {name}]

removeAttribute(s, name) ==
    [s EXCEPT !.attributes = @ \ {name}]

dispatchEvent(s, type) ==
    [s EXCEPT !.dispatched = Append(@, type)]

\* the flag as the plain field of the class body, never redefined as an accessor
closeOnBackgroundClickField(s) ==
    TRUE

\* options.closeOnBackgroundClick (getter)
closeOnBackgroundClick(s) ==
    ~hasAttribute(s, "ignore-background-click")

\* options.closeOnBackgroundClick = value
setCloseOnBackgroundClick(s, value) ==
    IF Boolean(value)
    THEN removeAttribute(s, "ignore-background-click")
    ELSE setAttribute(s, "ignore-background-click")

\* options.closeOnEscapeKey (getter)
closeOnEscapeKey(s) ==
    ~hasAttribute(s, "ignore-escape-key")

\* options.closeOnEscapeKey = value
setCloseOnEscapeKey(s, value) ==
    IF Boolean(value)
    THEN removeAttribute(s, "ignore-escape-key")
    ELSE setAttribute(s, "ignore-escape-key")

showModal(s) ==
    dispatchEvent(setAttribute(s, "open"), "open")

show(s) ==
    showModal(s)

\* close() that notifies only when the sheet was open
closeOnlyWhenOpen(s) ==
    IF hasAttribute(s, "open")
    THEN dispatchEvent(removeAttribute(s, "open"), "close")
    ELSE s

close(s) ==
    dispatchEvent(removeAttribute(s, "open"), "close")

\* get open
open(s) ==
    hasAttribute(s, "open")

\* set open
setOpen(s, value) ==
    IF value = "false" \/ value = "undefined" THEN close(s) ELSE show(s)

\* #onClick that does not look at the flag
onClickAnyFlag(s, event) ==
    LET path == event.path
    IN  IF ~(\E i \in 1..Len(path) : path[i] = "sheet")
        THEN dispatchEvent(removeAttribute(s, "open"), "close")
        ELSE s

\* #onClick that does not look at the path
onClickAnyPath(s, event) ==
    IF ~hasAttribute(s, "ignore-background-click")
    THEN dispatchEvent(removeAttribute(s, "open"), "close")
    ELSE s

\* #onClick
onClick(s, event) ==
    LET path == event.path
    IN  IF ~(\E i \in 1..Len(path) : path[i] = "sheet") /\ closeOnBackgroundClick(s)
        THEN close(s)
        ELSE s

\* #onCloseButtonClick gated like a background click
onCloseButtonClickGated(s) ==
    IF ~hasAttribute(s, "ignore-background-click")
    THEN dispatchEvent(removeAttribute(s, "open"), "close")
    ELSE s

\* #onCloseButtonClick
onCloseButtonClick(s) ==
    close(s)

\* #onKeyUp that does not look at the focus
onKeyUpAnyFocus(s, event, dom) ==
    IF event.key = "Escape" /\ ~hasAttribute(s, "ignore-escape-key")
    THEN dispatchEvent(removeAttribute(s, "open"), "close")
    ELSE s

\* #onKeyUp
onKeyUp(s, event, dom) ==
    LET isSheetElementFocused ==
            elementContains(event.target, "host") /\ isFocused(event.target, dom)
    IN  IF event.key = "Escape" /\ ~isSheetElementFocused /\ closeOnEscapeKey(s)
        THEN close(s)
        ELSE s

\* the strict threshold of #onDragEnd, in percents
CloseBelow == 75

\* #onDragStart
onDragStart(s, event, dom) ==
    [s EXCEPT !.dragPosition = Num(touchPosition(event).pageY),
              !.classList = @ \cup {"is-resized"},
              !.areaCursor = "grabbing",
              !.bodyCursor = "grabbing",
              !.scaleDownTo = ToNumber(getCSSVariableValue(dom, "--scale-down-to"))]

\* #getDistanceToTheBottomInPercents
getDistanceToTheBottomInPercents(s, y, dom) ==
    LET deltaY == NumSub(s.dragPosition, Num(y))
        distanceToTheBottomInPercents ==
            NumAdd(Num(100), NumMul(NumDiv(deltaY, Num(dom.clientHeight)), Num(100)))
    IN  MathMax(Num(0), MathMin(Num(100), distanceToTheBottomInPercents))

\* #dragSheet that translates by the distance itself
dragSheetNoFlip(s, distanceToTheBottomInPercents) ==
    LET translateY == distanceToTheBottomInPercents
        scale == mapNumber(distanceToTheBottomInPercents,
                           <<Num(0), Num(100)>>, <<s.scaleDownTo, Num(1)>>)
    IN  [s EXCEPT !.transform = <<translateY, scale>>,
                  !.transition = "none"]

\* #dragSheet
dragSheet(s, distanceToTheBottomInPercents) ==
    LET translateY == NumSub(Num(100), distanceToTheBottomInPercents)
        scale == mapNumber(distanceToTheBottomInPercents,
                           <<Num(0), Num(100)>>, <<s.scaleDownTo, Num(1)>>)
    IN  [s EXCEPT !.transform = <<translateY, scale>>,
                  !.transition = "none"]

\* #onDragMove without the early return
onDragMoveNoGuard(s, event, dom) ==
    dragSheet(s, getDistanceToTheBottomInPercents(s, touchPosition(event).pageY, dom))

\* #onDragMove that also closes below the threshold
onDragMoveCloses(s, event, dom) ==
    IF s.dragPosition = Undefined THEN s
    ELSE LET distanceToTheBottomInPercents ==
                 getDistanceToTheBottomInPercents(s, touchPosition(event).pageY, dom)
             s1 == IF NumLess(distanceToTheBottomInPercents, Num(CloseBelow))
                   THEN close(s)
                   ELSE s
         IN  dragSheet(s1, distanceToTheBottomInPercents)

\* #onDragMove
onDragMove(s, event, dom) ==
    IF s.dragPosition = Undefined THEN s
    ELSE dragSheet(s, getDistanceToTheBottomInPercents(s, touchPosition(event).pageY, dom))

\* #onDragEnd with the comparison distance <= 75
onDragEndNotStrict(s, event, dom) ==
    IF s.dragPosition = Undefined THEN s
    ELSE LET distanceToTheBottomInPercents ==
                 getDistanceToTheBottomInPercents(s, touchPosition(event).pageY, dom)
             s1 == IF ~NumLess(Num(CloseBelow), distanceToTheBottomInPercents)
                   THEN close(s)
                   ELSE s
         IN  [s1 EXCEPT !.areaCursor = "",
                        !.bodyCursor = "",
                        !.dragPosition = Undefined,
                        !.classList = @ \ {"is-resized"},
                        !.transform = <<>>,
                        !.transition = ""]

\* #onDragEnd that returns right after close()
onDragEndReturnsOnClose(s, event, dom) ==
    IF s.dragPosition = Undefined THEN s
    ELSE LET distanceToTheBottomInPercents ==
                 getDistanceToTheBottomInPercents(s, touchPosition(event).pageY, dom)
         IN  IF NumLess(distanceToTheBottomInPercents, Num(CloseBelow))
             THEN close(s)
             ELSE [s EXCEPT !.areaCursor = "",
                            !.bodyCursor = "",
                            !.dragPosition = Undefined,
                            !.classList = @ \ {"is-resized"},
                            !.transform = <<>>,
                            !.transition = ""]

\* #onDragEnd that leaves the is-resized class and the handle's cursor
onDragEndKeepsMarker(s, event, dom) ==
    IF s.dragPosition = Undefined THEN s
    ELSE LET distanceToTheBottomInPercents ==
                 getDistanceToTheBottomInPercents(s, touchPosition(event).pageY, dom)
             s1 == IF NumLess(distanceToTheBottomInPercents, Num(CloseBelow))
                   THEN close(s)
                   ELSE s
         IN  [s1 EXCEPT !.bodyCursor = "",
                        !.dragPosition = Undefined,
                        !.transform = <<>>,
                        !.transition = ""]

\* #onDragEnd
onDragEnd(s, event, dom) ==
    IF s.dragPosition = Undefined THEN s
    ELSE LET distanceToTheBottomInPercents ==
                 getDistanceToTheBottomInPercents(s, touchPosition(event).pageY, dom)
             s1 == IF NumLess(distanceToTheBottomInPercents, Num(CloseBelow))
                   THEN close(s)
                   ELSE s
         IN  [s1 EXCEPT !.areaCursor = "",
                        !.bodyCursor = "",
                        !.dragPosition = Undefined,
                        !.classList = @ \ {"is-resized"},
                        !.transform = <<>>,
                        !.transition = ""]

\* the window listeners of #eventListeners
GlobalListeners ==
    {<<"keyup", "onKeyUp">>,
     <<"mousemove", "onDragMove">>, <<"touchmove", "onDragMove">>,
     <<"mouseup", "onDragEnd">>, <<"touchend", "onDragEnd">>}

\* connectedCallback that registers touchmove where touchend was meant
connectedCallbackNoTouchEnd(listeners) ==
    listeners \cup {<<"keyup", "onKeyUp">>,
                    <<"mousemove", "onDragMove">>, <<"touchmove", "onDragMove">>,
                    <<"mouseup", "onDragEnd">>}

\* connectedCallback: window.addEventListener ignores a pair already registered
connectedCallback(listeners) ==
    listeners \cup GlobalListeners

\* disconnectedCallback that leaves the drag-end listeners on window
disconnectedCallbackKeepsDragEnd(listeners) ==
    listeners \ {<<"keyup", "onKeyUp">>,
                 <<"mousemove", "onDragMove">>, <<"touchmove", "onDragMove">>}

\* disconnectedCallback
disconnectedCallback(listeners) ==
    listeners \ GlobalListeners

----------------------------------------------------------------------------
(* Events *)

MouseEvent(type, y) ==
    [type |-> type, pageY |-> y]

TouchEvent(type, y) ==
    [type |-> type, touch |-> [pageY |-> y]]

PointerEvents(types) ==
    {MouseEvent(ty, y) : ty \in types \cap {"mousedown", "mousemove", "mouseup"},
                         y \in PageYs}
    \cup {TouchEvent(ty, y) : ty \in types \cap {"touchstart", "touchmove", "touchend"},
                              y \in PageYs}

\* a key event goes to the element that holds the focus
KeyboardEvent(key, dom) ==
    [type |-> "keyup", key |-> key, target |-> dom.activeElement]

ClickEvent(target) ==
    [type |-> "click", target |-> target, path |-> composedPath(target)]

\* whether window delivers an event of this type to the listener
Listens(type, listener) ==
    <<type, listener>> \in windowListeners

----------------------------------------------------------------------------
(* Steps *)

TypeOK ==
    /\ attributes \subseteq AttributeNames
    /\ dragPosition \in {Num(y) : y \in PageYs} \cup {Undefined}
    /\ scaleDownTo \in {ToNumber(v) : v \in ScaleDownToValues} \cup {Undefined}
    /\ Len(transform) \in {0, 2}
    /\ classList \subseteq {"is-resized"}
    /\ transition \in {"", "none"}
    /\ areaCursor \in {"", "grabbing"}
    /\ bodyCursor \in {"", "grabbing"}
    /\ windowListeners \subseteq GlobalListeners
    /\ isConnected \in BOOLEAN
    /\ Len(dispatched) \in 0..2

Init ==
    /\ attributes \in SUBSET AttributeNames
    /\ dragPosition = Undefined
    /\ scaleDownTo = Undefined
    /\ classList = {}
    /\ transform = <<>>
    /\ transition = ""
    /\ areaCursor = ""
    /\ bodyCursor = ""
    /\ windowListeners = {}
    /\ isConnected = FALSE
    /\ dispatched = <<>>
    /\ lastOp = [op |-> "new", arg |-> "", wasOpen |-> "open" \in attributes]
    /\ sibling = [attributes |-> {"open"}, dragPosition |-> Undefined,
                  scaleDownTo |-> Undefined, classList |-> {},
                  transform |-> <<>>, transition |-> "", areaCursor |-> "",
                  windowListeners |-> {}, isConnected |-> FALSE]
    /\ pointerDown = FALSE

\* the instance after a step that ran the handlers on it
Becomes(s) ==
    /\ attributes' = s.attributes
    /\ dragPosition' = s.dragPosition
    /\ scaleDownTo' = s.scaleDownTo
    /\ classList' = s.classList
    /\ transform' = s.transform
    /\ transition' = s.transition
    /\ areaCursor' = s.areaCursor
    /\ bodyCursor' = s.bodyCursor
    /\ dispatched' = s.dispatched

\* a step of this sheet alone: the rest of the page stands still
Did(op, arg) ==
    /\ lastOp' = [op |-> op, arg |-> arg, wasOpen |-> open(Self)]
    /\ UNCHANGED <<sibling, pointerDown>>

Show ==
    /\ Becomes(show(Self))
    /\ Did("show", "")
    /\ UNCHANGED <<windowListeners, isConnected>>

ShowModal ==
    /\ Becomes(showModal(Self))
    /\ Did("showModal", "")
    /\ UNCHANGED <<windowListeners, isConnected>>

Close ==
    /\ Becomes(close(Self))
    /\ Did("close", "")
    /\ UNCHANGED <<windowListeners, isConnected>>

SetOpen ==
    \E value \in JSValues :
        /\ Becomes(setOpen(Self, value))
        /\ Did("setOpen", value)
        /\ UNCHANGED <<windowListeners, isConnected>>

SetCloseOnBackgroundClick ==
    \E value \in JSValues :
        /\ Becomes(setCloseOnBackgroundClick(Self, value))
        /\ Did("setCloseOnBackgroundClick", value)
        /\ UNCHANGED <<windowListeners, isConnected>>

SetCloseOnEscapeKey ==
    \E value \in JSValues :
        /\ Becomes(setCloseOnEscapeKey(Self, value))
        /\ Did("setCloseOnEscapeKey", value)
        /\ UNCHANGED <<windowListeners, isConnected>>

\* the page sets one of the attributes itself: element.setAttribute(name, "")
SetAttribute ==
    \E name \in AttributeNames :
        /\ Becomes(setAttribute(Self, name))
        /\ Did("setAttribute", name)
        /\ UNCHANGED <<windowListeners, isConnected>>

\* the page removes one of the attributes itself
RemoveAttribute ==
    \E name \in AttributeNames :
        /\ Becomes(removeAttribute(Self, name))
        /\ Did("removeAttribute", name)
        /\ UNCHANGED <<windowListeners, isConnected>>

\* A click in the composed tree of a mounted sheet.  It bubbles from the
\* target: first the close button's listener, if the button is the target,
\* then the host's own click listener.
Click ==
    \E target \in ClickTargets :
        LET event == ClickEvent(target)
            s1 == IF target = "sheetCloseButton" THEN onCloseButtonClick(Self) ELSE Self
        IN  /\ isConnected
            /\ Becomes(onClick(s1, event))
            /\ Did("click", target)
            /\ UNCHANGED <<windowListeners, isConnected>>

\* mousedown or touchstart on the drag handle of a mounted sheet
DragStart ==
    \E event \in PointerEvents({"mousedown", "touchstart"}),
       value \in ScaleDownToValues :
        /\ isConnected
        /\ Becomes(onDragStart(Self, event, [scaleDownToValue |-> value]))
        /\ Did(event.type, [pageY |-> touchPosition(event).pageY])
        /\ UNCHANGED <<windowListeners, isConnected>>

\* mousemove or touchmove anywhere in the window
WindowDragMove ==
    \E event \in PointerEvents({"mousemove", "touchmove"}),
       height \in ClientHeights :
        /\ Becomes(IF Listens(event.type, "onDragMove")
                   THEN onDragMove(Self, event, [clientHeight |-> height])
                   ELSE Self)
        /\ Did(event.type, [pageY |-> touchPosition(event).pageY,
                            clientHeight |-> height,
                            session |-> dragPosition])
        /\ UNCHANGED <<windowListeners, isConnected>>

\* mouseup or touchend anywhere in the window
WindowDragEnd ==
    \E event \in PointerEvents({"mouseup", "touchend"}),
       height \in ClientHeights :
        /\ Becomes(IF Listens(event.type, "onDragEnd")
                   THEN onDragEnd(Self, event, [clientHeight |-> height])
                   ELSE Self)
        /\ Did(event.type, [pageY |-> touchPosition(event).pageY,
                            clientHeight |-> height,
                            session |-> dragPosition])
        /\ UNCHANGED <<windowListeners, isConnected>>

\* keyup anywhere in the window; an element of the sheet can hold the focus
\* only while the sheet is in the document
WindowKeyUp ==
    \E key \in Keys, focus \in FocusTargets :
        LET dom == [activeElement |-> focus]
            event == KeyboardEvent(key, dom)
        IN  /\ elementContains(focus, "host") => isConnected
            /\ Becomes(IF Listens("keyup", "onKeyUp")
                       THEN onKeyUp(Self, event, dom)
                       ELSE Self)
            /\ Did("keyup", [key |-> key, target |-> event.target])
            /\ UNCHANGED <<windowListeners, isConnected>>

\* the element is inserted into the document
Mount ==
    /\ ~isConnected
    /\ isConnected' = TRUE
    /\ windowListeners' = connectedCallback(windowListeners)
    /\ Becomes(Self)
    /\ Did("connected", "")

\* the element is removed from the document
Unmount ==
    /\ isConnected
    /\ isConnected' = FALSE
    /\ windowListeners' = disconnectedCallback(windowListeners)
    /\ Becomes(Self)
    /\ Did("disconnected", "")

Next ==
    \/ Show
    \/ ShowModal
    \/ Close
    \/ SetOpen
    \/ SetCloseOnBackgroundClick
    \/ SetCloseOnEscapeKey
    \/ SetAttribute
    \/ RemoveAttribute
    \/ Click
    \/ DragStart
    \/ WindowDragMove
    \/ WindowDragEnd
    \/ WindowKeyUp
    \/ Mount
    \/ Unmount

Spec ==
    Init /\ [][Next]_vars

----------------------------------------------------------------------------
(* A page with two sheets and one pointer.  Each sheet has its own fields    *)
(* and its own bound listeners on window; document.body.style.cursor is the  *)
(* one global they share.  The pointer is pressed, moved and released in     *)
(* turn: a press comes only after the release of the press before it.  The   *)
(* two sheets share the style sheet and are laid out with the same height,   *)
(* the tallest of ClientHeights.                                             *)

\* the second sheet as the instance its handlers run on
SiblingSelf(cursor) ==
    [attributes |-> sibling.attributes, dragPosition |-> sibling.dragPosition,
     scaleDownTo |-> sibling.scaleDownTo, classList |-> sibling.classList,
     transform |-> sibling.transform, transition |-> sibling.transition,
     areaCursor |-> sibling.areaCursor, bodyCursor |-> cursor,
     dispatched |-> <<>>]

\* the second sheet after its handlers ran
SiblingBecomes(s) ==
    sibling' = [attributes |-> s.attributes, dragPosition |-> s.dragPosition,
                scaleDownTo |-> s.scaleDownTo, classList |-> s.classList,
                transform |-> s.transform, transition |-> s.transition,
                areaCursor |-> s.areaCursor,
                windowListeners |-> sibling.windowListeners,
                isConnected |-> sibling.isConnected]

SiblingListens(type, listener) ==
    <<type, listener>> \in sibling.windowListeners

PageDid(op, arg) ==
    lastOp' = [op |-> op, arg |-> arg, wasOpen |-> open(Self)]

PageHeights ==
    {400 * MaxHeight}

\* the positions of the page's pointer: the highest and the lowest
PagePointerEvents(types) ==
    {event \in PointerEvents(types) :
        touchPosition(event).pageY \in {200, 100 * MaxPage}}

\* the second sheet is inserted into the document
SiblingMount ==
    /\ ~sibling.isConnected
    /\ sibling' = [sibling EXCEPT !.isConnected = TRUE,
                                  !.windowListeners = connectedCallback(@)]
    /\ Becomes(Self)
    /\ PageDid("connected", "sibling")
    /\ UNCHANGED <<windowListeners, isConnected, pointerDown>>

\* the second sheet is removed from the document
SiblingUnmount ==
    /\ sibling.isConnected
    /\ sibling' = [sibling EXCEPT !.isConnected = FALSE,
                                  !.windowListeners = disconnectedCallback(@)]
    /\ Becomes(Self)
    /\ PageDid("disconnected", "sibling")
    /\ UNCHANGED <<windowListeners, isConnected, pointerDown>>

\* the pointer is pressed on the drag handle of this sheet
PagePress ==
    \E event \in PagePointerEvents({"mousedown", "touchstart"}),
       value \in ScaleDownToValues :
        /\ ~pointerDown
        /\ pointerDown' = TRUE
        /\ isConnected
        /\ Becomes(onDragStart(Self, event, [scaleDownToValue |-> value]))
        /\ PageDid("press", "host")
        /\ UNCHANGED <<windowListeners, isConnected, sibling>>

\* the pointer is pressed on the drag handle of the second sheet
PagePressSibling ==
    \E event \in PagePointerEvents({"mousedown", "touchstart"}),
       value \in ScaleDownToValues :
        LET s == onDragStart(SiblingSelf(bodyCursor), event, [scaleDownToValue |-> value])
        IN  /\ ~pointerDown
            /\ pointerDown' = TRUE
            /\ sibling.isConnected
            /\ SiblingBecomes(s)
            /\ Becomes([Self EXCEPT !.bodyCursor = s.bodyCursor])
            /\ PageDid("press", "sibling")
            /\ UNCHANGED <<windowListeners, isConnected>>

\* The pointer moves: window calls the listeners of both sheets, in the
\* order of their registration; the two calls write disjoint state.
PageMove ==
    \E event \in PagePointerEvents({"mousemove", "touchmove"}),
       height \in PageHeights :
        LET s1 == IF Listens(event.type, "onDragMove")
                  THEN onDragMove(Self, event, [clientHeight |-> height])
                  ELSE Self
            s2 == IF SiblingListens(event.type, "onDragMove")
                  THEN onDragMove(SiblingSelf(s1.bodyCursor), event,
                                  [clientHeight |-> height])
                  ELSE SiblingSelf(s1.bodyCursor)
        IN  /\ Becomes([s1 EXCEPT !.bodyCursor = s2.bodyCursor])
            /\ SiblingBecomes(s2)
            /\ PageDid("move", "window")
            /\ UNCHANGED <<windowListeners, isConnected, pointerDown>>

\* The pressed pointer is released: window calls the listeners of both
\* sheets; both write the same value to the global cursor.
PageRelease ==
    \E event \in PagePointerEvents({"mouseup", "touchend"}),
       height \in PageHeights :
        LET s1 == IF Listens(event.type, "onDragEnd")
                  THEN onDragEnd(Self, event, [clientHeight |-> height])
                  ELSE Self
            s2 == IF SiblingListens(event.type, "onDragEnd")
                  THEN onDragEnd(SiblingSelf(s1.bodyCursor), event,
                                 [clientHeight |-> height])
                  ELSE SiblingSelf(s1.bodyCursor)
        IN  /\ pointerDown
            /\ pointerDown' = FALSE
            /\ Becomes([s1 EXCEPT !.bodyCursor = s2.bodyCursor])
            /\ SiblingBecomes(s2)
            /\ PageDid("release", "window")
            /\ UNCHANGED <<windowListeners, isConnected>>

PageNext ==
    \/ Mount
    \/ Unmount
    \/ SiblingMount
    \/ SiblingUnmount
    \/ PagePress
    \/ PagePressSibling
    \/ PageMove
    \/ PageRelease

\* both sheets are open
PageInit ==
    Init /\ attributes = {"open"}

PageSpec ==
    PageInit /\ [][PageNext]_vars

----------------------------------------------------------------------------
(* Properties *)

isOpen ==
    open(Self)

\* the state of the instance itself, without the window and the history
instance ==
    <<attributes, dragPosition, scaleDownTo, classList, transform, transition,
      areaCursor, bodyCursor>>

GlobalEventTypes ==
    {pair[1] : pair \in GlobalListeners}

\* C1: after a call of show() the open marker is present and exactly one
\* 'open' was dispatched; after a call of close() the marker is absent and
\* exactly one 'close' was dispatched, whatever the state before the call.
C1_LastCallDecides ==
    /\ lastOp.op = "show" => isOpen /\ dispatched = <<"open">>
    /\ lastOp.op = "close" => ~isOpen /\ dispatched = <<"close">>

\* close() on a sheet that was already closed: still one 'close'
C1_Witness ==
    /\ lastOp.op = "close"
    /\ ~lastOp.wasOpen
    /\ dispatched = <<"close">>

\* C2: every change of the sheet from Closed to Open dispatches exactly one
\* 'open' and every change from Open to Closed exactly one 'close', whichever
\* step changed the open marker.
C2_TransitionsNotify ==
    /\ (~lastOp.wasOpen /\ isOpen) => dispatched = <<"open">>
    /\ (lastOp.wasOpen /\ ~isOpen) => dispatched = <<"close">>

\* C3: assigning value to the open property has the effect of show() when
\* Boolean(value) is true and of close() when it is false: the same open
\* marker and the same notification.
C3_SetOpenByTruthiness ==
    [][lastOp'.op = "setOpen" =>
        LET call == IF Boolean(lastOp'.arg) THEN show(Self) ELSE close(Self)
        IN  /\ attributes' = call.attributes
            /\ dispatched' = call.dispatched]_vars

\* C4: after a click on the close button the open marker is absent and
\* 'close' was dispatched, whatever the two ignore markers and the state before.
C4_CloseButtonCloses ==
    (lastOp.op = "click" /\ lastOp.arg = "sheetCloseButton") =>
        /\ ~isOpen
        /\ Len(dispatched) >= 1
        /\ \A i \in 1..Len(dispatched) : dispatched[i] = "close"

\* an open sheet with both ignore markers, closed by the button
C4_Witness ==
    /\ lastOp.op = "click"
    /\ lastOp.arg = "sheetCloseButton"
    /\ lastOp.wasOpen
    /\ {"ignore-background-click", "ignore-escape-key"} \subseteq attributes
    /\ ~isOpen

\* C5: the host's click listener closes the sheet (marker removed, one
\* 'close') exactly when the inner container is not on the click's path and
\* the ignore-background-click marker is absent; otherwise it leaves the
\* attributes as they were and dispatches nothing.  before is the instance
\* when the click reaches the host's listener.
C5_BackgroundClick ==
    [][lastOp'.op = "click" =>
        LET target == lastOp'.arg
            before == IF target = "sheetCloseButton"
                      THEN onCloseButtonClick(Self)
                      ELSE Self
            path == composedPath(target)
            inside == \E i \in 1..Len(path) : path[i] = "sheet"
        IN  IF ~inside /\ "ignore-background-click" \notin attributes
            THEN /\ attributes' = attributes \ {"open"}
                 /\ dispatched' = Append(before.dispatched, "close")
            ELSE /\ attributes' = before.attributes
                 /\ dispatched' = before.dispatched]_vars

\* a click on the background closed an open sheet
C5_Witness ==
    /\ lastOp.op = "click"
    /\ lastOp.arg = "host"
    /\ lastOp.wasOpen
    /\ ~isOpen
    /\ dispatched = <<"close">>

lastDistance ==
    getDistanceToTheBottomInPercents([dragPosition |-> lastOp.arg.session],
                                     lastOp.arg.pageY,
                                     [clientHeight |-> lastOp.arg.clientHeight])

\* the last step was a drag end that found an active session
dragEndHandled ==
    /\ lastOp.op \in {"mouseup", "touchend"}
    /\ Listens(lastOp.op, "onDragEnd")
    /\ lastOp.arg.session # Undefined

\* the last step was a drag move that found an active session
dragMoveHandled ==
    /\ lastOp.op \in {"mousemove", "touchmove"}
    /\ Listens(lastOp.op, "onDragMove")
    /\ lastOp.arg.session # Undefined

\* C7: a drag end with an active session closes the sheet (marker removed,
\* one 'close') if the distance is below 75, and otherwise, 75 included,
\* leaves the open marker as it was and dispatches nothing.
C7_ReleaseThreshold ==
    dragEndHandled =>
        IF NumLess(lastDistance, Num(75))
        THEN ~isOpen /\ dispatched = <<"close">>
        ELSE isOpen = lastOp.wasOpen /\ dispatched = <<>>

\* a release at exactly 75 percents leaves an open sheet open
C7_Witness ==
    /\ dragEndHandled
    /\ lastDistance = Num(75)
    /\ lastOp.wasOpen
    /\ isOpen
    /\ dispatched = <<>>

\* C8: the distance computed for a drag move or a drag end with an active
\* session is a number from 0 to 100, for every sheet height, 0 included.
C8_DistanceClamped ==
    (dragMoveHandled \/ dragEndHandled) =>
        /\ lastDistance.k = "fin"
        /\ ~NumLess(lastDistance, Num(0))
        /\ ~NumLess(Num(100), lastDistance)

\* C9: while the sheet is not in the document, a key-up, pointer-move,
\* touch-move, pointer-up or touch-end on window changes nothing of the
\* instance and dispatches nothing.
C9_UnmountedIgnoresGlobalEvents ==
    [][(~isConnected /\ lastOp'.op \in GlobalEventTypes) =>
        /\ UNCHANGED instance
        /\ dispatched' = <<>>]_vars

\* a pointer-up reached window after the sheet was unmounted in mid-drag
C9_Witness ==
    /\ ~isConnected
    /\ lastOp.op = "mouseup"
    /\ dragPosition # Undefined
    /\ lastOp.arg.session = dragPosition

\* C10: each option flag reads as the negation of the presence of its ignore
\* marker, and reads as Boolean(value) right after value was assigned to it.
C10_FlagsNegateMarkers ==
    /\ closeOnBackgroundClick(Self) = ("ignore-background-click" \notin attributes)
    /\ closeOnEscapeKey(Self) = ("ignore-escape-key" \notin attributes)
    /\ lastOp.op = "setCloseOnBackgroundClick" =>
           closeOnBackgroundClick(Self) = Boolean(lastOp.arg)
    /\ lastOp.op = "setCloseOnEscapeKey" =>
           closeOnEscapeKey(Self) = Boolean(lastOp.arg)

\* the flag was assigned 0 and the marker is present
C10_Witness ==
    /\ lastOp.op = "setCloseOnBackgroundClick"
    /\ lastOp.arg = "0"
    /\ "ignore-background-click" \in attributes
    /\ ~closeOnBackgroundClick(Self)

\* C11: after a drag end with an active session, whether it closed the sheet
\* or not, there is no session, the handle's and the global cursor are empty,
\* the is-resized class is gone and the transform and transition are empty.
C11_DragEndResets ==
    dragEndHandled =>
        /\ dragPosition = Undefined
        /\ areaCursor = ""
        /\ bodyCursor = ""
        /\ "is-resized" \notin classList
        /\ transform = <<>>
        /\ transition = ""

\* a drag end that closed an open sheet
C11_Witness ==
    /\ dragEndHandled
    /\ NumLess(lastDistance, Num(75))
    /\ lastOp.wasOpen
    /\ ~isOpen
    /\ dragPosition = Undefined

\* C12: a drag move or a drag end that finds no session changes nothing of
\* the instance and dispatches nothing.
C12_NoSessionNoOp ==
    [][(/\ lastOp'.op \in {"mousemove", "touchmove", "mouseup", "touchend"}
        /\ dragPosition = Undefined) =>
        /\ UNCHANGED instance
        /\ dispatched' = <<>>]_vars

\* a touch-end reached the handler of a mounted, open sheet with no session
C12_Witness ==
    /\ lastOp.op = "touchend"
    /\ Listens("touchend", "onDragEnd")
    /\ lastOp.arg.session = Undefined
    /\ lastOp.wasOpen
    /\ isOpen

\* C13: right after a pointer-up or touch-end on window the instance has no
\* drag session, also when it was unmounted during the gesture.
C13_NoSessionAfterPointerUp ==
    lastOp.op \in {"mouseup", "touchend"} => dragPosition = Undefined

\* C14: the window listeners of the instance are the five of
\* connectedCallback, one per event type, while it is in the document, and
\* none while it is not.
C14_MountUnmountSymmetric ==
    /\ isConnected =>
        /\ windowListeners = GlobalListeners
        /\ {pair[1] : pair \in windowListeners} =
               {"keyup", "mousemove", "touchmove", "mouseup", "touchend"}
        /\ Cardinality(windowListeners) = Cardinality({pair[1] : pair \in windowListeners})
    /\ ~isConnected => windowListeners = {}

\* unmounted after having been mounted: nothing is left on window
C14_Witness ==
    /\ lastOp.op = "disconnected"
    /\ ~isConnected
    /\ windowListeners = {}

\* the clamp of x to [low, high]
clamp(x, low, high) ==
    IF NumLess(x, low) THEN low ELSE IF NumLess(high, x) THEN high ELSE x

\* the transform the drag move is to apply, from the recorded inputs of the
\* event and a scale-down value
expectedTransform(startY, currentY, sheetHeight, scaleDown) ==
    LET distance ==
            clamp(NumAdd(Num(100),
                         NumMul(NumDiv(NumSub(startY, Num(currentY)), Num(sheetHeight)),
                                Num(100))),
                  Num(0), Num(100))
        scale == NumAdd(scaleDown,
                        NumMul(NumSub(Num(1), scaleDown), NumDiv(distance, Num(100))))
    IN  <<NumSub(Num(100), distance), scale>>

\* C16: after a drag move with an active session the transform is
\* translateY = 100 - distance and scale = scaleDownTo + (1 - scaleDownTo) *
\* distance / 100 with distance = clamp(100 + (startY - currentY) / height *
\* 100, 0, 100), and the transition is "none"; with scaleDownTo 0.9, height
\* 400 and startY 300, currentY 200 gives <<0, 1>> and currentY 500 gives
\* <<50, 0.95>>.
C16_DragMoveTransform ==
    dragMoveHandled =>
        /\ transform = expectedTransform(lastOp.arg.session, lastOp.arg.pageY,
                                         lastOp.arg.clientHeight, scaleDownTo)
        /\ transition = "none"
        /\ (/\ scaleDownTo = Frac(9, 10)
            /\ lastOp.arg.session = Num(300)
            /\ lastOp.arg.clientHeight = 400) =>
               /\ lastOp.arg.pageY = 200 => transform = <<Num(0), Num(1)>>
               /\ lastOp.arg.pageY = 500 => transform = <<Num(50), Frac(95, 100)>>

\* the second scenario: start 300, move to 500, height 400, scale-down 0.9
C16_Witness ==
    /\ dragMoveHandled
    /\ scaleDownTo = Frac(9, 10)
    /\ lastOp.arg = [pageY |-> 500, clientHeight |-> 400, session |-> Num(300)]
    /\ transform = <<Num(50), Frac(19, 20)>>
    /\ transition = "none"

\* C17: a click on the close button dispatches exactly one 'close', with or
\* without the ignore-background-click marker: the host's click listener,
\* which the click also reaches, adds none.
C17_CloseButtonOneClose ==
    (lastOp.op = "click" /\ lastOp.arg = "sheetCloseButton") =>
        dispatched = <<"close">>

\* the marker is absent, so only the path keeps the host's listener from closing
C17_Witness ==
    /\ lastOp.op = "click"
    /\ lastOp.arg = "sheetCloseButton"
    /\ "ignore-background-click" \notin attributes
    /\ lastOp.wasOpen
    /\ dispatched = <<"close">>

\* C18: while no drag session is active the is-resized class is absent, the
\* transform and the transition are empty and the handle's cursor is empty.
C18_NoSessionNoArtefacts ==
    dragPosition = Undefined =>
        /\ "is-resized" \notin classList
        /\ transform = <<>>
        /\ transition = ""
        /\ areaCursor = ""

\* a drag that did not close the sheet has ended
C18_Witness ==
    /\ dragEndHandled
    /\ ~NumLess(lastDistance, Num(75))
    /\ dragPosition = Undefined
    /\ classList = {}
    /\ transform = <<>>

\* C19: a drag start and a drag move leave the attributes of the host as
\* they were and dispatch nothing; a drag end adds no attribute, removes at
\* most the open marker and dispatches at most one 'close'.
C19_DragFrame ==
    [][/\ lastOp'.op \in {"mousedown", "touchstart", "mousemove", "touchmove"} =>
            /\ attributes' = attributes
            /\ dispatched' = <<>>
       /\ lastOp'.op \in {"mouseup", "touchend"} =>
            /\ attributes' \in {attributes, attributes \ {"open"}}
            /\ dispatched' \in {<<>>, <<"close">>}
            /\ dispatched' = <<>> => attributes' = attributes]_vars

\* an open sheet dragged below the threshold is still open during the move
C19_Witness ==
    /\ dragMoveHandled
    /\ NumLess(lastDistance, Num(75))
    /\ lastOp.wasOpen
    /\ isOpen
    /\ dispatched = <<>>

\* C15: two sheets that are both in the document never have an active drag
\* session at the same time, so at most one session writes the global cursor.
C15_OneSessionPageWide ==
    ~(/\ isConnected
      /\ sibling.isConnected
      /\ dragPosition # Undefined
      /\ sibling.dragPosition # Undefined)

====
